---- MODULE Spec2Model ----
(***************************************************************************)
(* A model of the cellular-automaton engine of game_of_life.py: the Grid   *)
(* object (cell matrix, generation counter), its two topologies, its three *)
(* transition rules, the create_grid factory and the pattern catalogue.    *)
(*                                                                         *)
(* Probabilities and random draws are integers in per cent: a draw r in    *)
(* [0, 1) is modelled by floor(100 r) in 0..99, which decides r < p/100    *)
(* exactly for every whole per-cent threshold p.                           *)
(***************************************************************************)
EXTENDS Integers, Sequences, FiniteSets, TLC

VARIABLES
    grid,       \* the Grid object: width, height, cells, generation, its mixins
    result,     \* outcome of the create_grid call: "none", "grid", "ValueError"
    last,       \* the last operation: its name, its arguments, the grid before it
    calls,      \* step() calls since the last clear(); whether last follows a clear()
    origin,     \* the cell matrix the run was seeded with
    pc,         \* position inside a step() that is executed cell by cell
    new_cells,  \* the local matrix new_cells of a running step()
    observed,   \* what an external reader last read from grid.cells
    history,    \* the complete matrix of every generation so far
    twin,       \* a second Grid, numpy's global random state, and the same
                \* seeded run of the first Grid without the second
    viz         \* the Visualizer: its two history lists, and previous_cells
                \* and the birth and death counts of its last frame

vars == <<grid, result, last, calls, origin, pc, new_cells, observed, history,
          twin, viz>>

(***************************************************************************)
(* Bounds of the model.                                                    *)
(***************************************************************************)
\* Largest number of cells (width * height) of a grid in Spec.
MaxCells == 4
\* Largest value of the generation counter in Spec.
MaxGen == 2
\* Largest number of cells of a grid in SpecCall.
MaxCallCells == 6
\* Largest number of cells of a grid in SpecStep: under a rule that draws, and
\* under Conway's rule.
MaxStepCells == 5
MaxConwayCells == 9
\* Largest width and height passed to the factory in SpecFactory.
MaxFactoryDim == 2
\* Largest number of cells, and largest generation, of a grid in SpecFine.
MaxFineCells == 4
MaxFineGen == 1
\* Largest width and height, and largest generation, of a grid in SpecBlinker.
MaxBlinkerDim == 5
MaxBlinkerGen == 4
\* Largest width and height, and largest generation, of a grid in SpecBlock.
MaxBlockDim == 4
MaxBlockGen == 3
\* Largest width and height, and largest generation, of a grid in SpecGlider.
MaxGliderDim == 7
MaxGliderGen == 28
\* Largest width and height of a grid in SpecNeighbors.
MaxNeighborsDim == 4
\* Largest number of cells of each of the two grids, and the number of draws
\* of the seeded random stream, in SpecTwins.
MaxTwinCells == 2
MaxStreamLen == 4
\* Largest number of cells of a grid in SpecRule.
MaxRuleCells == 4
\* Largest number of cells of a grid, and of frames of an animation, in
\* SpecFrames.
MaxFrameCells == 3
MaxFrames == 2
\* Largest width, largest height and largest generation of a grid in
\* SpecShift.
MaxShiftWidth == 4
MaxShiftHeight == 3
MaxShiftGen == 1
\* Largest width, largest height and largest generation of a grid in
\* SpecBorder.
MaxBorderWidth == 4
MaxBorderHeight == 3
MaxBorderGen == 1

(***************************************************************************)
(* Cell matrices: cells[y][x], shape (height, width), as the numpy array.  *)
(***************************************************************************)
CellState == {0, 1}

Rows(h) == 0 .. (h - 1)
Cols(w) == 0 .. (w - 1)

\* np.zeros((height, width)) / np.zeros_like(self.cells)
Zeros(w, h) == [y \in Rows(h) |-> [x \in Cols(w) |-> 0]]

\* Every matrix of shape (h, w) over {0, 1}.
Matrices(w, h) == [Rows(h) -> [Cols(w) -> CellState]]

\* int(np.sum(cells)): the population of a matrix.
RECURSIVE SumRow(_, _)
SumRow(row, n) == IF n = 0 THEN 0 ELSE row[n - 1] + SumRow(row, n - 1)

RECURSIVE SumRows(_, _, _)
SumRows(m, w, n) == IF n = 0 THEN 0 ELSE SumRow(m[n - 1], w) + SumRows(m, w, n - 1)

Population(m, w, h) == SumRows(m, w, h)

(***************************************************************************)
(* Topology.  The offsets in the order the two loops yield them            *)
(* (dy outer, dx inner, (0, 0) skipped), each as <<dx, dy>>.               *)
(***************************************************************************)
Offsets ==
    << <<-1, -1>>, <<0, -1>>, <<1, -1>>,
       <<-1,  0>>,            <<1,  0>>,
       <<-1,  1>>, <<0,  1>>, <<1,  1>> >>

InBounds(x, y, w, h) == 0 <= x /\ x < w /\ 0 <= y /\ y < h

\* A get_neighbors that does not skip dx = dy = 0.
GridGetNeighborsWithSelf(x, y, w, h) ==
    SelectSeq([i \in 1 .. 9 |-> <<x + ((i - 1) % 3) - 1, y + ((i - 1) \div 3) - 1>>],
              LAMBDA p : InBounds(p[1], p[2], w, h))

\* Grid.get_neighbors: the sequence of <<nx, ny>> yielded, off-grid ones dropped.
GridGetNeighbors(x, y, w, h) ==
    SelectSeq([i \in 1 .. 8 |-> <<x + Offsets[i][1], y + Offsets[i][2]>>],
              LAMBDA p : InBounds(p[1], p[2], w, h))

\* A toroidal get_neighbors that clips at the edges instead of wrapping.
ToroidalGetNeighborsClipped(x, y, w, h) ==
    SelectSeq([i \in 1 .. 8 |-> <<x + Offsets[i][1], y + Offsets[i][2]>>],
              LAMBDA p : InBounds(p[1], p[2], w, h))

\* A toroidal get_neighbors that stops at the edges: an off-grid coordinate is
\* moved to the nearest one on the grid.
ToroidalGetNeighborsClamped(x, y, w, h) ==
    [i \in 1 .. 8 |->
        LET nx == x + Offsets[i][1]
            ny == y + Offsets[i][2]
        IN  <<IF nx < 0 THEN 0 ELSE IF nx >= w THEN w - 1 ELSE nx,
              IF ny < 0 THEN 0 ELSE IF ny >= h THEN h - 1 ELSE ny>>]

\* ToroidalMixin.get_neighbors: the eight wrapped coordinates, in order.
ToroidalGetNeighbors(x, y, w, h) ==
    [i \in 1 .. 8 |-> <<(x + Offsets[i][1]) % w, (y + Offsets[i][2]) % h>>]

\* Method resolution: ToroidalMixin precedes Grid in the bases when toroidal.
get_neighbors(g, x, y) ==
    IF g.toroidal
    THEN ToroidalGetNeighbors(x, y, g.width, g.height)
    ELSE GridGetNeighbors(x, y, g.width, g.height)

RECURSIVE SumCells(_, _, _)
SumCells(m, ns, i) ==
    IF i > Len(ns) THEN 0 ELSE m[ns[i][2]][ns[i][1]] + SumCells(m, ns, i + 1)

\* Grid.count_neighbors over the matrix m (self.cells at the time of the call).
count_neighbors(g, m, x, y) == SumCells(m, get_neighbors(g, x, y), 1)

(***************************************************************************)
(* Rules.                                                                  *)
(***************************************************************************)
\* A Conway rule under which a cell with a single neighbour survives too.
ConwaySurvivesOnOne(current, neighbor_count) ==
    IF current = 1
    THEN (IF neighbor_count \in {1, 2, 3} THEN 1 ELSE 0)
    ELSE (IF neighbor_count = 3 THEN 1 ELSE 0)

\* Grid.next_state (Conway).
ConwayNextState(current, neighbor_count) ==
    IF current = 1
    THEN (IF neighbor_count \in {2, 3} THEN 1 ELSE 0)
    ELSE (IF neighbor_count = 3 THEN 1 ELSE 0)

\* A probabilistic rule with its two branches exchanged.
ProbabilisticNextStateFlipped(current, neighbor_count, certainty, r) ==
    LET intended ==
            IF current = 1
            THEN (IF neighbor_count \in {2, 3} THEN 1 ELSE 0)
            ELSE (IF neighbor_count = 3 THEN 1 ELSE 0)
    IN  IF r < certainty THEN 1 - intended ELSE intended

\* ProbabilisticMixin.next_state, r the draw of np.random.random().
ProbabilisticNextState(current, neighbor_count, certainty, r) ==
    LET intended ==
            IF current = 1
            THEN (IF neighbor_count \in {2, 3} THEN 1 ELSE 0)
            ELSE (IF neighbor_count = 3 THEN 1 ELSE 0)
    IN  IF r < certainty THEN intended ELSE 1 - intended

\* Graduated probabilities with those of a dead cell with 2 and with 3
\* living neighbours exchanged.
GraduatedProbSwapped(current, neighbor_count) ==
    IF current = 1
    THEN (IF neighbor_count < 2 THEN 10
          ELSE IF neighbor_count \in {2, 3} THEN 95
          ELSE 20)
    ELSE (IF neighbor_count = 3 THEN 10
          ELSE IF neighbor_count = 2 THEN 90
          ELSE 1)

\* The probability GraduatedMixin.next_state picks, in per cent.
GraduatedProb(current, neighbor_count) ==
    IF current = 1
    THEN (IF neighbor_count < 2 THEN 10
          ELSE IF neighbor_count \in {2, 3} THEN 95
          ELSE 20)
    ELSE (IF neighbor_count = 3 THEN 90
          ELSE IF neighbor_count = 2 THEN 10
          ELSE 1)

\* GraduatedMixin.next_state, r the draw of np.random.random().
GraduatedNextState(current, neighbor_count, r) ==
    IF r < GraduatedProb(current, neighbor_count) THEN 1 ELSE 0

\* Method resolution of next_state: the rule mixin if any, else Grid's.
next_state(g, current, neighbor_count, r) ==
    CASE g.rule = "probabilistic" ->
            ProbabilisticNextState(current, neighbor_count, g.certainty, r)
      [] g.rule = "graduated" ->
            GraduatedNextState(current, neighbor_count, r)
      [] OTHER -> ConwayNextState(current, neighbor_count)

(***************************************************************************)
(* The factory.                                                            *)
(***************************************************************************)
\* ProbabilisticMixin.certainty, the class attribute (0.9), in per cent.
ClassCertainty == 90

\* The rule whose next_state the synthesized class resolves to: the mixin
\* appended for "probabilistic" or "graduated", Grid's own (Conway) otherwise.
RuleMixin(rules) ==
    IF rules = "probabilistic" THEN "probabilistic"
    ELSE IF rules = "graduated" THEN "graduated"
    ELSE "conway"

\* How create_grid ends: np.zeros raises ValueError on a negative dimension,
\* nothing else in the factory raises.
CreateGridOutcome(w, h, tor, rules, cert) ==
    IF w < 0 \/ h < 0 THEN "ValueError" ELSE "grid"

\* A factory that drops the rule mixin when the topology is toroidal.
CreateGridPlainTorus(w, h, tor, rules, cert) ==
    [width      |-> w,
     height     |-> h,
     cells      |-> Zeros(w, h),
     generation |-> 0,
     toroidal   |-> tor,
     rule       |-> IF tor THEN "conway" ELSE RuleMixin(rules),
     certainty  |-> IF rules = "probabilistic" THEN cert ELSE ClassCertainty]

\* The Grid create_grid returns.  Grids without the probabilistic mixin never
\* read certainty; the field then holds the class default.
create_grid(w, h, tor, rules, cert) ==
    [width      |-> w,
     height     |-> h,
     cells      |-> Zeros(w, h),
     generation |-> 0,
     toroidal   |-> tor,
     rule       |-> RuleMixin(rules),
     certainty  |-> IF rules = "probabilistic" THEN cert ELSE ClassCertainty]

(***************************************************************************)
(* PATTERNS, each the list of <<x, y>> in source order.                    *)
(***************************************************************************)
PATTERNS ==
    [glider      |-> << <<1, 0>>, <<2, 1>>, <<0, 2>>, <<1, 2>>, <<2, 2>> >>,
     blinker     |-> << <<0, 1>>, <<1, 1>>, <<2, 1>> >>,
     block       |-> << <<0, 0>>, <<1, 0>>, <<0, 1>>, <<1, 1>> >>,
     beacon      |-> << <<0, 0>>, <<1, 0>>, <<0, 1>>, <<2, 3>>, <<3, 2>>, <<3, 3>> >>,
     toad        |-> << <<1, 0>>, <<2, 0>>, <<3, 0>>, <<0, 1>>, <<1, 1>>, <<2, 1>> >>,
     r_pentomino |-> << <<1, 0>>, <<2, 0>>, <<0, 1>>, <<1, 1>>, <<1, 2>> >>,
     glider_gun  |->
        << <<24, 0>>, <<22, 1>>, <<24, 1>>, <<12, 2>>, <<13, 2>>, <<20, 2>>,
           <<21, 2>>, <<34, 2>>, <<35, 2>>, <<11, 3>>, <<15, 3>>, <<20, 3>>,
           <<21, 3>>, <<34, 3>>, <<35, 3>>, <<0, 4>>, <<1, 4>>, <<10, 4>>,
           <<16, 4>>, <<20, 4>>, <<21, 4>>, <<0, 5>>, <<1, 5>>, <<10, 5>>,
           <<14, 5>>, <<16, 5>>, <<17, 5>>, <<22, 5>>, <<24, 5>>, <<10, 6>>,
           <<16, 6>>, <<24, 6>>, <<11, 7>>, <<15, 7>>, <<12, 8>>, <<13, 8>> >>]

(***************************************************************************)
(* Grid operations, each a function from the grid before to the grid after.*)
(***************************************************************************)
\* A step() whose new_cells is self.cells itself, not a fresh matrix.
CellsAliased(g, acc) == acc

\* What self.cells holds while the loops of step() run: new_cells is a fresh
\* matrix (np.zeros_like), so writing new_cells[y, x] leaves self.cells alone.
CellsWhileStepping(g, acc) == g.cells

\* A loop body that counts the neighbours in new_cells instead of self.cells.
StepCellInPlace(g, acc, x, y, r) ==
    [acc EXCEPT ![y][x] = next_state(g, g.cells[y][x],
                                     count_neighbors(g, acc, x, y), r)]

\* One pass of the loop body of step(): the neighbours are counted in
\* self.cells, which the loop never writes; the result goes to new_cells.
StepCell(g, acc, x, y, r) ==
    [acc EXCEPT ![y][x] = next_state(g, g.cells[y][x],
                                     count_neighbors(g, g.cells, x, y), r)]

\* The two loops of step() in row-major order, k = y * width + x, draws[y][x]
\* the draw cell (x, y) makes if its rule makes one.
RECURSIVE StepLoop(_, _, _, _)
StepLoop(g, acc, k, draws) ==
    IF k >= g.width * g.height
    THEN acc
    ELSE LET y == k \div g.width
             x == k % g.width
         IN  StepLoop(g, StepCell(g, acc, x, y, draws[y][x]), k + 1, draws)

\* A step() that leaves the generation counter alone.
StepKeepsGeneration(g, draws) ==
    [g EXCEPT !.cells = StepLoop(g, Zeros(g.width, g.height), 0, draws)]

\* Grid.step
step(g, draws) ==
    [g EXCEPT !.cells = StepLoop(g, Zeros(g.width, g.height), 0, draws),
              !.generation = g.generation + 1]

\* A set_cell without the lower bounds: a negative index wraps, as numpy's does.
SetCellInNoLowerBound(m, w, h, x, y, state) ==
    IF x < w /\ y < h THEN [m EXCEPT ![y % h][x % w] = state] ELSE m

\* The body of Grid.set_cell on the matrix m of a grid of width w, height h.
SetCellIn(m, w, h, x, y, state) ==
    IF InBounds(x, y, w, h) THEN [m EXCEPT ![y][x] = state] ELSE m

\* Grid.set_cell
set_cell(g, x, y, state) ==
    [g EXCEPT !.cells = SetCellIn(g.cells, g.width, g.height, x, y, state)]

\* A set_pattern loop that forgets the offset.
RECURSIVE SetPatternLoopNoOffset(_, _, _, _, _, _, _)
SetPatternLoopNoOffset(m, w, h, pattern, i, ox, oy) ==
    IF i > Len(pattern)
    THEN m
    ELSE SetPatternLoopNoOffset(
             SetCellIn(m, w, h, pattern[i][1], pattern[i][2], 1),
             w, h, pattern, i + 1, ox, oy)

\* The loop of Grid.set_pattern: self.set_cell(x + ox, y + oy), state left at
\* its default 1, for each pattern entry in turn.
RECURSIVE SetPatternLoop(_, _, _, _, _, _, _)
SetPatternLoop(m, w, h, pattern, i, ox, oy) ==
    IF i > Len(pattern)
    THEN m
    ELSE SetPatternLoop(
             SetCellIn(m, w, h, pattern[i][1] + ox, pattern[i][2] + oy, 1),
             w, h, pattern, i + 1, ox, oy)

\* Grid.set_pattern
set_pattern(g, pattern, ox, oy) ==
    [g EXCEPT !.cells =
        SetPatternLoop(g.cells, g.width, g.height, pattern, 1, ox, oy)]

\* A randomize that builds its matrix with the two dimensions swapped.
RandomizeTransposed(g, density, draws) ==
    [g EXCEPT !.cells = [x \in Cols(g.width) |-> [y \in Rows(g.height) |->
                            IF draws[y][x] < density THEN 1 ELSE 0]]]

\* A randomize that adds its cells to the matrix instead of replacing it.
RandomizeOverlay(g, density, draws) ==
    [g EXCEPT !.cells = [y \in Rows(g.height) |-> [x \in Cols(g.width) |->
                            IF draws[y][x] < density THEN 1 ELSE g.cells[y][x]]]]

\* Grid.randomize: a fresh matrix, cell (x, y) alive iff its draw < density.
randomize(g, density, draws) ==
    [g EXCEPT !.cells = [y \in Rows(g.height) |-> [x \in Cols(g.width) |->
                            IF draws[y][x] < density THEN 1 ELSE 0]]]

\* A clear() that forgets the generation counter.
ClearKeepsGeneration(g) ==
    [g EXCEPT !.cells = [y \in Rows(g.height) |-> [x \in Cols(g.width) |-> 0]]]

\* Grid.clear
clear(g) ==
    [g EXCEPT !.cells = [y \in Rows(g.height) |-> [x \in Cols(g.width) |-> 0]],
              !.generation = 0]

(***************************************************************************)
(* Inputs of the model.                                                    *)
(***************************************************************************)
\* The rule names the factory knows.
RuleNames == {"conway", "probabilistic", "graduated"}

\* Certainties in per cent: never as intended, the default, always as intended.
Certainties == {0, 90, 100}

\* The certainties of Spec: the default, and always as intended.
SpecCertainties == {90, 100}

\* Draws in per cent: the least draw and the greatest.
Draws == {0, 99}

\* The draws one step() or randomize() makes, one per cell.
DrawMatrices(g) == [Rows(g.height) -> [Cols(g.width) -> Draws]]

\* Conway's next_state makes no draw: one draw matrix stands for all.
StepDraws(g) ==
    IF g.rule = "conway"
    THEN {[y \in Rows(g.height) |-> [x \in Cols(g.width) |-> 0]]}
    ELSE DrawMatrices(g)

\* Densities in per cent: 0, the default 0.3, 1.
Densities == {0, 30, 100}

PatternNames == DOMAIN PATTERNS

\* Offsets of a pattern, per axis: one that clips at the low edge, and none.
PatternOffsets == {-1, 0}

\* The valid configurations of at most n cells, the certainty among certs.
ValidConfigs(n, certs) ==
    {c \in [w : 1 .. n, h : 1 .. n, tor : BOOLEAN, rules : RuleNames,
            cert : certs \cup {ClassCertainty}] :
        /\ c.w * c.h <= n
        /\ (c.rules # "probabilistic" => c.cert = ClassCertainty)}

NoOp == [op |-> "none", args |-> <<>>, pre |-> <<>>]

NoCalls == [steps |-> 0, after_clear |-> FALSE]

NotStepping == [at |-> "idle", k |-> 0]

\* No second Grid.
NoTwin == <<>>

\* No Visualizer.
NoViz == <<>>

Idle ==
    /\ pc = NotStepping
    /\ new_cells = <<>>
    /\ observed = <<>>
    /\ history = <<>>
    /\ twin = NoTwin
    /\ viz = NoViz

Frame ==
    UNCHANGED <<result, origin, pc, new_cells, observed, history, twin, viz>>

(***************************************************************************)
(* The calls on a Grid.  A traced call (full) keeps its arguments and the  *)
(* grid before it in last; an untraced one keeps its name and counts.      *)
(***************************************************************************)
Call(full, op, args) ==
    /\ last' = IF full
               THEN [op |-> op, args |-> args, pre |-> grid]
               ELSE [op |-> op, args |-> <<>>, pre |-> <<>>]
    /\ calls' = IF full
                THEN calls
                ELSE [steps |-> CASE op = "step"  -> calls.steps + 1
                                  [] op = "clear" -> 0
                                  [] OTHER        -> calls.steps,
                      after_clear |-> last.op = "clear"]
    /\ Frame

Step(full, limit) ==
    /\ grid.generation < limit
    /\ \E draws \in StepDraws(grid) :
          /\ grid' = step(grid, draws)
          /\ Call(full, "step", draws)

SetCell(full) ==
    \E x \in -1 .. grid.width, y \in -1 .. grid.height, state \in CellState :
       /\ grid' = set_cell(grid, x, y, state)
       /\ Call(full, "set_cell", <<x, y, state>>)

SetPattern(full) ==
    \E name \in PatternNames, ox \in PatternOffsets, oy \in PatternOffsets :
       /\ grid' = set_pattern(grid, PATTERNS[name], ox, oy)
       /\ Call(full, "set_pattern", <<name, ox, oy>>)

Randomize(full) ==
    \E density \in Densities, draws \in DrawMatrices(grid) :
       /\ grid' = randomize(grid, density, draws)
       /\ Call(full, "randomize", <<density>>)

Clear(full) ==
    /\ grid' = clear(grid)
    /\ Call(full, "clear", <<>>)

(***************************************************************************)
(* Spec: a grid built from a valid configuration, then any sequence of     *)
(* step, set_cell, set_pattern, randomize and clear.                       *)
(***************************************************************************)
Init ==
    /\ \E c \in ValidConfigs(MaxCells, SpecCertainties) :
          grid = create_grid(c.w, c.h, c.tor, c.rules, c.cert)
    /\ result = "grid"
    /\ last = NoOp
    /\ calls = NoCalls
    /\ origin = grid.cells
    /\ Idle

Next ==
    \/ Step(FALSE, MaxGen)
    \/ SetCell(FALSE)
    \/ SetPattern(FALSE)
    \/ Randomize(FALSE)
    \/ Clear(FALSE)

Spec == Init /\ [][Next]_vars

(***************************************************************************)
(* A grid in any state it can be in: any matrix, generation 0 or MaxGen.   *)
(***************************************************************************)
InitAny(configs) ==
    /\ \E c \in configs :
       \E m \in Matrices(c.w, c.h), gen \in {0, MaxGen} :
          grid = [create_grid(c.w, c.h, c.tor, c.rules, c.cert)
                     EXCEPT !.cells = m, !.generation = gen]
    /\ result = "grid"
    /\ last = NoOp
    /\ calls = NoCalls
    /\ origin = Zeros(grid.width, grid.height)
    /\ Idle

(***************************************************************************)
(* SpecCall: a grid in any state, then one traced call of set_cell,        *)
(* set_pattern, randomize or clear.                                        *)
(***************************************************************************)
InitCall == InitAny(ValidConfigs(MaxCallCells, {}))

NextCall ==
    /\ last.op = "none"
    /\ \/ SetCell(TRUE)
       \/ SetPattern(TRUE)
       \/ Randomize(TRUE)
       \/ Clear(TRUE)

SpecCall == InitCall /\ [][NextCall]_vars

(***************************************************************************)
(* SpecStep: a grid in any state, then one traced step().                  *)
(***************************************************************************)
InitStep ==
    InitAny({c \in ValidConfigs(MaxConwayCells, Certainties) :
                c.rules # "conway" => c.w * c.h <= MaxStepCells})

NextStep ==
    /\ last.op = "none"
    /\ Step(TRUE, MaxGen + 1)

SpecStep == InitStep /\ [][NextStep]_vars

(***************************************************************************)
(* SpecFactory: one call of create_grid, with valid and invalid arguments. *)
(***************************************************************************)
\* No Grid object: before the factory is called, or after it raised.
NoGrid ==
    [width |-> 0, height |-> 0, cells |-> <<>>, generation |-> 0,
     toroidal |-> FALSE, rule |-> "none", certainty |-> 0]

FactoryRules == RuleNames \cup {"bogus"}

\* Certainties in per cent, two of them outside [0, 1].
FactoryCertainties == {-10, 0, 90, 100, 150}

InitFactory ==
    /\ grid = NoGrid
    /\ result = "none"
    /\ last = NoOp
    /\ calls = NoCalls
    /\ origin = <<>>
    /\ Idle

CreateGrid ==
    /\ result = "none"
    /\ \E w \in -1 .. MaxFactoryDim, h \in -1 .. MaxFactoryDim, tor \in BOOLEAN,
          rules \in FactoryRules, cert \in FactoryCertainties :
          /\ result' = CreateGridOutcome(w, h, tor, rules, cert)
          /\ grid' = IF result' = "grid"
                     THEN create_grid(w, h, tor, rules, cert)
                     ELSE NoGrid
          /\ last' = [op   |-> "create_grid",
                      args |-> [w |-> w, h |-> h, tor |-> tor,
                                rules |-> rules, cert |-> cert],
                      pre  |-> <<>>]
    /\ origin' = grid'.cells
    /\ UNCHANGED <<calls, pc, new_cells, observed, history, twin, viz>>

SpecFactory == InitFactory /\ [][CreateGrid]_vars

(***************************************************************************)
(* SpecFine: step() executed one loop pass at a time, and a reader that    *)
(* may read grid.cells between any two passes.                             *)
(***************************************************************************)
InitFine ==
    /\ \E c \in ValidConfigs(MaxFineCells, {}) : \E m \in Matrices(c.w, c.h) :
          grid = [create_grid(c.w, c.h, c.tor, c.rules, c.cert) EXCEPT !.cells = m]
    /\ result = "grid"
    /\ last = NoOp
    /\ calls = NoCalls
    /\ origin = grid.cells
    /\ pc = NotStepping
    /\ new_cells = <<>>
    /\ observed = <<>>
    /\ history = [start |-> grid.cells, done |-> <<>>]
    /\ twin = NoTwin
    /\ viz = NoViz

\* new_cells = np.zeros_like(self.cells)
FineBegin ==
    /\ pc.at = "idle"
    /\ grid.generation < MaxFineGen
    /\ new_cells' = Zeros(grid.width, grid.height)
    /\ pc' = [at |-> "loop", k |-> 0]
    /\ history' = [start |-> grid.cells, done |-> <<>>]
    /\ observed' = <<>>
    /\ UNCHANGED <<grid, result, last, calls, origin, twin, viz>>

\* One pass of the loops: new_cells[y, x] = self.next_state(...)
FineCell ==
    /\ pc.at = "loop"
    /\ pc.k < grid.width * grid.height
    /\ \E r \in (IF grid.rule = "conway" THEN {0} ELSE Draws) :
          LET y == pc.k \div grid.width
              x == pc.k % grid.width
              filled == StepCell(grid, new_cells, x, y, r)
          IN  /\ new_cells' = filled
              /\ grid' = [grid EXCEPT !.cells = CellsWhileStepping(grid, filled)]
    /\ pc' = [pc EXCEPT !.k = pc.k + 1]
    /\ UNCHANGED <<result, last, calls, origin, observed, history, twin, viz>>

\* self.cells = new_cells
FineSwap ==
    /\ pc.at = "loop"
    /\ pc.k = grid.width * grid.height
    /\ grid' = [grid EXCEPT !.cells = new_cells]
    /\ pc' = [pc EXCEPT !.at = "swapped"]
    /\ history' = [history EXCEPT !.done = new_cells]
    /\ UNCHANGED <<result, last, calls, origin, new_cells, observed, twin, viz>>

\* self.generation += 1, and step() returns
FineCount ==
    /\ pc.at = "swapped"
    /\ grid' = [grid EXCEPT !.generation = grid.generation + 1]
    /\ pc' = NotStepping
    /\ new_cells' = <<>>
    /\ UNCHANGED <<result, last, calls, origin, observed, history, twin, viz>>

\* The reader reads grid.cells.
Observe ==
    /\ observed' = grid.cells
    /\ UNCHANGED <<grid, result, last, calls, origin, pc, new_cells, history,
                   twin, viz>>

NextFine == FineBegin \/ FineCell \/ FineSwap \/ FineCount \/ Observe

SpecFine == InitFine /\ [][NextFine]_vars

(***************************************************************************)
(* SpecBlinker: a bounded Conway grid seeded with the blinker, its 3 x 3   *)
(* box inside the grid, then stepped.                                      *)
(***************************************************************************)
InitBlinker ==
    /\ \E w \in 3 .. MaxBlinkerDim, h \in 3 .. MaxBlinkerDim :
       \E ox \in 0 .. (w - 3), oy \in 0 .. (h - 3) :
          grid = set_pattern(create_grid(w, h, FALSE, "conway", ClassCertainty),
                             PATTERNS.blinker, ox, oy)
    /\ result = "grid"
    /\ last = NoOp
    /\ calls = NoCalls
    /\ origin = grid.cells
    /\ Idle

NextBlinker == Step(FALSE, MaxBlinkerGen)

SpecBlinker == InitBlinker /\ [][NextBlinker]_vars

(***************************************************************************)
(* SpecBlock: a Conway grid of either topology seeded with the block, its  *)
(* 2 x 2 box inside the grid, then stepped.                                *)
(***************************************************************************)
InitBlock ==
    /\ \E w \in 2 .. MaxBlockDim, h \in 2 .. MaxBlockDim, tor \in BOOLEAN :
       \E ox \in 0 .. (w - 2), oy \in 0 .. (h - 2) :
          grid = set_pattern(create_grid(w, h, tor, "conway", ClassCertainty),
                             PATTERNS.block, ox, oy)
    /\ result = "grid"
    /\ last = NoOp
    /\ calls = NoCalls
    /\ origin = grid.cells
    /\ Idle

NextBlock == Step(FALSE, MaxBlockGen)

SpecBlock == InitBlock /\ [][NextBlock]_vars

(***************************************************************************)
(* SpecGlider: a toroidal Conway grid of width and height at least 6       *)
(* seeded with one glider, then stepped.                                   *)
(***************************************************************************)
\* The least width and height of the grids the glider is run on.
MinGliderDim == 6

InitGlider ==
    /\ \E w \in MinGliderDim .. MaxGliderDim, h \in MinGliderDim .. MaxGliderDim :
       \E ox \in 0 .. (w - 3), oy \in 0 .. (h - 3) :
          grid = set_pattern(create_grid(w, h, TRUE, "conway", ClassCertainty),
                             PATTERNS.glider, ox, oy)
    /\ result = "grid"
    /\ last = NoOp
    /\ calls = NoCalls
    /\ origin = grid.cells
    /\ Idle

NextGlider == Step(FALSE, MaxGliderGen)

SpecGlider == InitGlider /\ [][NextGlider]_vars

(***************************************************************************)
(* SpecNeighbors: a grid of either topology, all alive or with one alive   *)
(* cell, then one call of get_neighbors and count_neighbors on a cell.     *)
(***************************************************************************)
\* The matrix of a w x h grid in which every cell is alive.
Ones(w, h) == [y \in Rows(h) |-> [x \in Cols(w) |-> 1]]

\* The matrices of a w x h grid in which exactly one cell is alive.
Singles(w, h) ==
    {[y \in Rows(h) |-> [x \in Cols(w) |-> IF x = ax /\ y = ay THEN 1 ELSE 0]] :
        ax \in Cols(w), ay \in Rows(h)}

InitNeighbors ==
    /\ \E w \in 1 .. MaxNeighborsDim, h \in 1 .. MaxNeighborsDim, tor \in BOOLEAN :
       \E m \in {Ones(w, h)} \cup Singles(w, h) :
          grid = [create_grid(w, h, tor, "conway", ClassCertainty) EXCEPT !.cells = m]
    /\ result = "grid"
    /\ last = NoOp
    /\ calls = NoCalls
    /\ origin = grid.cells
    /\ Idle

GetNeighbors ==
    /\ last.op = "none"
    /\ \E x \in Cols(grid.width), y \in Rows(grid.height) :
          last' = [op   |-> "get_neighbors",
                   args |-> [x       |-> x,
                             y       |-> y,
                             yielded |-> get_neighbors(grid, x, y),
                             count   |-> count_neighbors(grid, grid.cells, x, y)],
                   pre  |-> grid]
    /\ UNCHANGED <<grid, calls>>
    /\ Frame

SpecNeighbors == InitNeighbors /\ [][GetNeighbors]_vars

(***************************************************************************)
(* SpecTwins: two Grids with stochastic rules in one process.  Both draw   *)
(* from np.random, the generator of the numpy module, modelled as a seeded *)
(* stream and the position reached in it.  Next to the run in which the    *)
(* calls on the two grids interleave, twin.alone is the first grid in the  *)
(* run with the same seed and the same step() calls but no second grid.    *)
(***************************************************************************)
\* The matrix of draws the next calls of np.random.random() hand to a step()
\* or a randomize() of g, cell by cell in row-major order, when the global
\* generator has handed out pos draws of the stream.
DrawsFrom(stream, pos, g) ==
    [y \in Rows(g.height) |-> [x \in Cols(g.width) |->
        stream[pos + y * g.width + x + 1]]]

\* The draws one step() of g takes: one per cell under a rule mixin, none
\* under Conway's rule.
StepDrawCount(g) == IF g.rule = "conway" THEN 0 ELSE g.width * g.height

\* The configurations with a rule that draws.
StochasticConfigs(n) == {c \in ValidConfigs(n, {}) : c.rules # "conway"}

InitTwins ==
    /\ \E a \in StochasticConfigs(MaxTwinCells), b \in StochasticConfigs(MaxTwinCells),
          stream \in [1 .. MaxStreamLen -> Draws] :
       \E m \in Matrices(a.w, a.h) :
          /\ grid = [create_grid(a.w, a.h, a.tor, a.rules, a.cert) EXCEPT !.cells = m]
          /\ twin = [other     |-> create_grid(b.w, b.h, b.tor, b.rules, b.cert),
                     stream    |-> stream,
                     pos       |-> 0,
                     alone     |-> grid,
                     alone_pos |-> 0]
    /\ result = "grid"
    /\ last = NoOp
    /\ calls = NoCalls
    /\ origin = grid.cells
    /\ pc = NotStepping
    /\ new_cells = <<>>
    /\ observed = <<>>
    /\ history = <<>>
    /\ viz = NoViz

TwinFrame ==
    UNCHANGED <<result, calls, origin, pc, new_cells, observed, history, viz>>

\* step() on the first grid, in both runs.
TwinStep ==
    /\ twin.pos + StepDrawCount(grid) <= Len(twin.stream)
    /\ grid' = step(grid, DrawsFrom(twin.stream, twin.pos, grid))
    /\ twin' = [twin EXCEPT
                   !.pos       = @ + StepDrawCount(grid),
                   !.alone     = step(twin.alone,
                                      DrawsFrom(twin.stream, twin.alone_pos, twin.alone)),
                   !.alone_pos = @ + StepDrawCount(twin.alone)]
    /\ last' = [op |-> "step", args |-> <<>>, pre |-> <<>>]
    /\ TwinFrame

\* step() on the second grid.
OtherStep ==
    /\ twin.pos + StepDrawCount(twin.other) <= Len(twin.stream)
    /\ twin' = [twin EXCEPT
                   !.pos   = @ + StepDrawCount(twin.other),
                   !.other = step(twin.other,
                                  DrawsFrom(twin.stream, twin.pos, twin.other))]
    /\ last' = [op |-> "other_step", args |-> <<>>, pre |-> <<>>]
    /\ UNCHANGED grid
    /\ TwinFrame

\* randomize(density) on the second grid.
OtherRandomize ==
    /\ twin.pos + twin.other.width * twin.other.height <= Len(twin.stream)
    /\ \E density \in Densities :
          twin' = [twin EXCEPT
                     !.pos   = @ + twin.other.width * twin.other.height,
                     !.other = randomize(twin.other, density,
                                         DrawsFrom(twin.stream, twin.pos, twin.other))]
    /\ last' = [op |-> "other_randomize", args |-> <<>>, pre |-> <<>>]
    /\ UNCHANGED grid
    /\ TwinFrame

NextTwins == TwinStep \/ OtherStep \/ OtherRandomize

SpecTwins == InitTwins /\ [][NextTwins]_vars

(***************************************************************************)
(* SpecRule: a grid in any state, then one traced call: next_state with    *)
(* any cell state, neighbour count and draw, or step().  next_state reads  *)
(* nothing of the matrix, so it is called on the empty grids only.         *)
(***************************************************************************)
\* Every draw of np.random.random(), in per cent.
AllDraws == 0 .. 99

InitRule == InitAny(ValidConfigs(MaxRuleCells, Certainties))

NextStateCall ==
    /\ grid.cells = Zeros(grid.width, grid.height)
    /\ grid.generation = 0
    /\ \E current \in CellState, n \in 0 .. 8, r \in AllDraws :
          last' = [op   |-> "next_state",
                   args |-> [current |-> current,
                             n       |-> n,
                             r       |-> r,
                             out     |-> next_state(grid, current, n, r)],
                   pre  |-> grid]
    /\ UNCHANGED <<grid, calls>>
    /\ Frame

NextRule ==
    /\ last.op = "none"
    /\ \/ NextStateCall
       \/ Step(TRUE, MaxGen + 1)

SpecRule == InitRule /\ [][NextRule]_vars

(***************************************************************************)
(* SpecFrames: a Visualizer on a grid in any state; animate() sets up the  *)
(* figure, then the animation calls _animate_frame once per frame.  Only   *)
(* the frame's effect on the grid, on the two history lists and on the     *)
(* birth and death counts handed to the sonifier is modelled.              *)
(***************************************************************************)
\* The matrix with a 1 where a cell was `from` in prev and is `to` in cur.
Transitions(prev, cur, w, h, from, to) ==
    [y \in Rows(h) |-> [x \in Cols(w) |->
        IF prev[y][x] = from /\ cur[y][x] = to THEN 1 ELSE 0]]

\* A frame that reads previous_cells only after the step.
PreviousCellsAfterStep(before, after) == after.cells

\* previous_cells = self.grid.cells.copy(), taken before self.grid.step().
PreviousCells(before, after) == before.cells

\* int(np.sum(just_born)), int(np.sum(just_died)) of a frame; nothing is
\* counted unless there is a sonifier and it is enabled.
FrameDelta(sonifier, prev, cur, w, h) ==
    IF sonifier = "on"
    THEN [counted |-> TRUE,
          births  |-> Population(Transitions(prev, cur, w, h, 0, 1), w, h),
          deaths  |-> Population(Transitions(prev, cur, w, h, 1, 0), w, h)]
    ELSE [counted |-> FALSE, births |-> 0, deaths |-> 0]

\* Visualizer._record_population
RecordPopulation(v, g) ==
    [v EXCEPT
        !.generation_history = Append(@, g.generation),
        !.population_history = Append(@, Population(g.cells, g.width, g.height))]

\* Visualizer.__init__
NewVisualizer(sound_enabled) ==
    [at                 |-> "built",
     sound_enabled      |-> sound_enabled,
     sonifier           |-> "none",
     generation_history |-> <<>>,
     population_history |-> <<>>,
     previous_cells     |-> <<>>,
     delta              |-> [counted |-> FALSE, births |-> 0, deaths |-> 0],
     frames             |-> 0]

InitFrames ==
    /\ \E c \in ValidConfigs(MaxFrameCells, {}) :
       \E m \in Matrices(c.w, c.h), gen \in {0, MaxGen} :
          grid = [create_grid(c.w, c.h, c.tor, c.rules, c.cert)
                     EXCEPT !.cells = m, !.generation = gen]
    /\ \E sound_enabled \in BOOLEAN : viz = NewVisualizer(sound_enabled)
    /\ result = "grid"
    /\ last = NoOp
    /\ calls = NoCalls
    /\ origin = grid.cells
    /\ pc = NotStepping
    /\ new_cells = <<>>
    /\ observed = <<>>
    /\ history = <<>>
    /\ twin = NoTwin

VizFrame ==
    UNCHANGED <<result, calls, origin, pc, new_cells, observed, history, twin>>

\* Visualizer._setup_figure, called by animate(): the first history entry,
\* and the sonifier if sound was asked for.
SetupFigure ==
    /\ viz.at = "built"
    /\ viz' = [RecordPopulation(viz, grid) EXCEPT
                  !.at = "ready",
                  !.sonifier = IF viz.sound_enabled THEN "on" ELSE "none"]
    /\ last' = [op |-> "setup_figure", args |-> <<>>, pre |-> grid]
    /\ UNCHANGED grid
    /\ VizFrame

\* Visualizer._toggle_sound
ToggleSound ==
    /\ viz.at = "ready"
    /\ viz.sonifier # "none"
    /\ viz' = [viz EXCEPT !.sonifier = IF @ = "on" THEN "off" ELSE "on"]
    /\ UNCHANGED <<grid, last>>
    /\ VizFrame

\* Visualizer._animate_frame
AnimateFrame ==
    /\ viz.at = "ready"
    /\ viz.frames < MaxFrames
    /\ \E draws \in StepDraws(grid) :
          /\ grid' = step(grid, draws)
          /\ last' = [op |-> "animate_frame", args |-> draws, pre |-> grid]
    /\ \E prev \in {PreviousCells(grid, grid')} :
          viz' = [RecordPopulation(viz, grid') EXCEPT
                    !.previous_cells = prev,
                    !.delta = FrameDelta(viz.sonifier, prev, grid'.cells,
                                         grid'.width, grid'.height),
                    !.frames = @ + 1]
    /\ VizFrame

NextFrames == SetupFigure \/ ToggleSound \/ AnimateFrame

SpecFrames == InitFrames /\ [][NextFrames]_vars

(***************************************************************************)
(* SpecShift: a toroidal Conway grid with any matrix, and in twin.other a  *)
(* second one whose matrix is the first moved cyclically by (a, b); each   *)
(* is then stepped on its own.                                             *)
(***************************************************************************)
InitShift ==
    /\ \E c \in {c \in ValidConfigs(MaxShiftWidth * MaxShiftHeight, {}) :
                    /\ c.tor /\ c.rules = "conway"
                    /\ c.w <= MaxShiftWidth /\ c.h <= MaxShiftHeight} :
       \E m \in Matrices(c.w, c.h), a \in Cols(c.w), b \in Rows(c.h) :
          /\ grid = [create_grid(c.w, c.h, c.tor, c.rules, c.cert)
                        EXCEPT !.cells = m]
          /\ twin = [other |-> [grid EXCEPT !.cells =
                                   [y \in Rows(c.h) |-> [x \in Cols(c.w) |->
                                       m[(y - b) % c.h][(x - a) % c.w]]]],
                     shift |-> <<a, b>>]
    /\ result = "grid"
    /\ last = NoOp
    /\ calls = NoCalls
    /\ origin = grid.cells
    /\ pc = NotStepping
    /\ new_cells = <<>>
    /\ observed = <<>>
    /\ history = <<>>
    /\ viz = NoViz

\* step() on the moved grid.
StepShifted ==
    /\ twin.other.generation < MaxShiftGen
    /\ \E draws \in StepDraws(twin.other) :
          twin' = [twin EXCEPT !.other = step(twin.other, draws)]
    /\ last' = [op |-> "other_step", args |-> <<>>, pre |-> <<>>]
    /\ UNCHANGED grid
    /\ TwinFrame

NextShift == Step(FALSE, MaxShiftGen) \/ StepShifted

SpecShift == InitShift /\ [][NextShift]_vars

(***************************************************************************)
(* SpecBorder: a bounded Conway grid of width and height at least 3 with   *)
(* any matrix, and in twin.other a toroidal one with the same matrix.      *)
(* get_neighbors is called on a cell of both, and each is stepped on its   *)
(* own.  get_neighbors reads nothing of the matrix, so it is called on the *)
(* empty grids only.                                                       *)
(***************************************************************************)
InitBorder ==
    /\ \E w \in 3 .. MaxBorderWidth, h \in 3 .. MaxBorderHeight :
       \E m \in Matrices(w, h) :
          /\ grid = [create_grid(w, h, FALSE, "conway", ClassCertainty)
                        EXCEPT !.cells = m]
          /\ twin = [other |-> [create_grid(w, h, TRUE, "conway", ClassCertainty)
                                   EXCEPT !.cells = m]]
    /\ result = "grid"
    /\ last = NoOp
    /\ calls = NoCalls
    /\ origin = grid.cells
    /\ pc = NotStepping
    /\ new_cells = <<>>
    /\ observed = <<>>
    /\ history = <<>>
    /\ viz = NoViz

\* get_neighbors(x, y) on the bounded and on the toroidal grid.
GetBothNeighbors ==
    /\ last.op = "none"
    /\ grid.cells = Zeros(grid.width, grid.height)
    /\ \E x \in Cols(grid.width), y \in Rows(grid.height) :
          last' = [op   |-> "get_neighbors",
                   args |-> [x        |-> x,
                             y        |-> y,
                             bounded  |-> get_neighbors(grid, x, y),
                             toroidal |-> get_neighbors(twin.other, x, y)],
                   pre  |-> grid]
    /\ UNCHANGED <<grid, calls>>
    /\ Frame

\* step() on the toroidal grid.
StepToroidal ==
    /\ twin.other.generation < MaxBorderGen
    /\ \E draws \in StepDraws(twin.other) :
          twin' = [twin EXCEPT !.other = step(twin.other, draws)]
    /\ last' = [op |-> "other_step", args |-> <<>>, pre |-> <<>>]
    /\ UNCHANGED grid
    /\ TwinFrame

NextBorder == GetBothNeighbors \/ Step(FALSE, MaxBorderGen) \/ StepToroidal

SpecBorder == InitBorder /\ [][NextBorder]_vars

(***************************************************************************)
(* Properties.                                                             *)
(***************************************************************************)
AllDead(g) == \A y \in Rows(g.height) : \A x \in Cols(g.width) : g.cells[y][x] = 0

SomeAlive(g) == \E y \in Rows(g.height) : \E x \in Cols(g.width) : g.cells[y][x] = 1

\* The grid apart from its matrix and its counter.
Config(g) == <<g.width, g.height, g.toroidal, g.rule, g.certainty>>

\* C1 (SpecStep): step() is a synchronous update.  After a step, every cell
\* (x, y) holds next_state(old[y][x], n, r), n the number of living
\* neighbours of (x, y) in the matrix before the step and r the cell's own
\* draw; the counter is one more; nothing else of the grid changes.
C1_StepIsSynchronous ==
    last.op = "step" =>
        LET old == last.pre
        IN  /\ \A y \in Rows(old.height) : \A x \in Cols(old.width) :
                  grid.cells[y][x] =
                      next_state(old, old.cells[y][x],
                                 count_neighbors(old, old.cells, x, y),
                                 last.args[y][x])
            /\ grid.generation = old.generation + 1
            /\ Config(grid) = Config(old)

\* A bounded Conway row 1 1 1 has been stepped: its middle cell survives on
\* the two neighbours it had, although the left one died before it was computed.
C1_Witness ==
    /\ last.op = "step"
    /\ last.pre.rule = "conway"
    /\ ~last.pre.toroidal
    /\ last.pre.width = 3 /\ last.pre.height = 1
    /\ last.pre.cells = [y \in {0} |-> [x \in 0 .. 2 |-> 1]]
    /\ grid.cells[0][0] = 0 /\ grid.cells[0][1] = 1

\* C2 (Spec): the generation counter equals the number of step() calls made
\* since the most recent clear(), or since construction.
C2_GenerationCountsSteps == grid.generation = calls.steps

\* Two steps, then a randomize: the counter stays at 2.
C2_Witness ==
    /\ last.op = "randomize"
    /\ calls.steps = 2
    /\ grid.generation = 2

\* C3 (Spec): the matrix keeps the shape (height, width) it was built with,
\* and every cell is 0 or 1.
C3_ShapeAndCellStates ==
    /\ DOMAIN grid.cells = Rows(grid.height)
    /\ DOMAIN grid.cells = DOMAIN origin
    /\ \A y \in DOMAIN grid.cells :
          /\ DOMAIN grid.cells[y] = Cols(grid.width)
          /\ DOMAIN grid.cells[y] = DOMAIN origin[y]
          /\ \A x \in DOMAIN grid.cells[y] : grid.cells[y][x] \in {0, 1}

\* A 3 x 1 grid has been randomized and stepped.
C3_Witness ==
    /\ last.op = "step"
    /\ grid.width = 3 /\ grid.height = 1
    /\ SomeAlive(grid)

\* C5 as claimed (Spec): after clear() every cell is 0 and the counter is 0;
\* a step() right after clear() leaves every cell 0 and the counter at 1.
C5_ClearThenStepAllDead ==
    /\ last.op = "clear" => AllDead(grid) /\ grid.generation = 0
    /\ last.op = "step" /\ calls.after_clear =>
          AllDead(grid) /\ grid.generation = 1

\* The rules under which a dead cell without living neighbours stays dead
\* whatever is drawn: Conway's, and the probabilistic one at certainty 1.
NeverFlips(g) ==
    \/ g.rule = "conway"
    \/ g.rule = "probabilistic" /\ g.certainty >= 100

\* C5 as amended (Spec): after clear() every cell is 0 and the counter is 0;
\* a step() right after clear() sets the counter to 1, and leaves every cell
\* 0 if the rule is Conway's or the probabilistic one at certainty 1.
C5_ClearThenStep ==
    /\ last.op = "clear" => AllDead(grid) /\ grid.generation = 0
    /\ last.op = "step" /\ calls.after_clear =>
          /\ grid.generation = 1
          /\ NeverFlips(grid) => AllDead(grid)

\* A step() right after a clear() on a probabilistic grid of certainty 1.
C5_Witness ==
    /\ last.op = "step"
    /\ calls.after_clear
    /\ grid.rule = "probabilistic"
    /\ grid.generation = 1
    /\ AllDead(grid)

\* C6 (SpecCall): set_cell(x, y, state) outside the grid changes nothing;
\* inside, it sets cell (x, y) to state and changes no other cell; the
\* counter and the rest of the grid are unchanged either way.
C6_SetCellFrame ==
    last.op = "set_cell" =>
        LET old   == last.pre
            x     == last.args[1]
            y     == last.args[2]
            state == last.args[3]
            inside == x \in Cols(old.width) /\ y \in Rows(old.height)
        IN  /\ grid.generation = old.generation
            /\ Config(grid) = Config(old)
            /\ ~inside => grid.cells = old.cells
            /\ inside =>
                  \A yy \in Rows(old.height) : \A xx \in Cols(old.width) :
                     grid.cells[yy][xx] =
                        IF xx = x /\ yy = y THEN state ELSE old.cells[yy][xx]

\* set_cell(-1, 0, 1) on a grid whose last cell of row 0 is dead: it stays dead.
C6_Witness ==
    /\ last.op = "set_cell"
    /\ last.args = <<-1, 0, 1>>
    /\ grid.width >= 2
    /\ grid.cells[0][grid.width - 1] = 0
    /\ grid.generation = 2

\* The cells a pattern placed at (ox, oy) aims at.
Targets(pattern, ox, oy) ==
    {<<pattern[i][1] + ox, pattern[i][2] + oy>> : i \in 1 .. Len(pattern)}

\* C7 (SpecCall): set_pattern(pattern, (ox, oy)) makes alive exactly the
\* targets inside the grid, never one wrapped to the opposite edge; every
\* other cell and the counter are unchanged.
C7_SetPatternFrame ==
    last.op = "set_pattern" =>
        LET old == last.pre
            aim == Targets(PATTERNS[last.args[1]], last.args[2], last.args[3])
        IN  /\ grid.generation = old.generation
            /\ Config(grid) = Config(old)
            /\ \A y \in Rows(old.height) : \A x \in Cols(old.width) :
                  grid.cells[y][x] =
                     IF <<x, y>> \in aim THEN 1 ELSE old.cells[y][x]

\* The block placed at (-1, -1) on an empty toroidal 3 x 2 grid: of its four
\* cells only (0, 0) is inside, and the opposite corner stays dead.
C7_Witness ==
    /\ last.op = "set_pattern"
    /\ last.args = <<"block", -1, -1>>
    /\ grid.toroidal
    /\ grid.width = 3 /\ grid.height = 2
    /\ AllDead(last.pre)
    /\ grid.cells[0][0] = 1
    /\ grid.cells[1][2] = 0

\* C9 (SpecStep): Conway's rule keeps an alive cell alive iff it has 2 or 3
\* living neighbours and makes a dead cell alive iff it has 3; so after a
\* step() of a Conway grid of either topology, every cell that was alive
\* with 0 or 1 living neighbours is dead.
C9_ConwayRule ==
    /\ \A n \in 0 .. 8 :
          /\ ConwayNextState(1, n) = 1 <=> n \in {2, 3}
          /\ ConwayNextState(0, n) = 1 <=> n = 3
          /\ ConwayNextState(1, n) \in {0, 1}
          /\ ConwayNextState(0, n) \in {0, 1}
    /\ last.op = "step" /\ last.pre.rule = "conway" =>
          \A y \in Rows(grid.height) : \A x \in Cols(grid.width) :
             (/\ last.pre.cells[y][x] = 1
              /\ count_neighbors(last.pre, last.pre.cells, x, y) <= 1)
                => grid.cells[y][x] = 0

\* A toroidal Conway grid has been stepped in which cell (0, 0) was alive
\* with exactly one living neighbour.
C9_Witness ==
    /\ last.op = "step"
    /\ last.pre.rule = "conway"
    /\ last.pre.toroidal
    /\ last.pre.cells[0][0] = 1
    /\ count_neighbors(last.pre, last.pre.cells, 0, 0) = 1
    /\ grid.cells[0][0] = 0

\* The configurations the factory is to reject.
InvalidConfiguration(a) ==
    \/ a.w <= 0
    \/ a.h <= 0
    \/ a.rules \notin RuleNames
    \/ a.cert < 0
    \/ a.cert > 100

\* C4 (SpecFactory): create_grid fails with InvalidConfiguration, and returns
\* no Grid, whenever width <= 0, height <= 0, the rule name is unknown or
\* the certainty is outside [0, 1].
C4_FactoryRejectsInvalid ==
    last.op = "create_grid" /\ InvalidConfiguration(last.args) =>
        result = "InvalidConfiguration" /\ grid = NoGrid

\* C8 (SpecFine): grid.cells, read at any point of a step(), is the complete
\* matrix of the generation the step started from or, once swapped in, the
\* complete matrix of the next one; while the loops run it is the former.
C8_NoPartialGeneration ==
    /\ pc.at = "loop" => grid.cells = history.start
    /\ observed # <<>> =>
          \/ observed = history.start
          \/ pc.at # "loop" /\ history.done # <<>> /\ observed = history.done
    /\ history.done # <<>> /\ grid.rule = "conway" =>
          history.done =
             [y \in Rows(grid.height) |-> [x \in Cols(grid.width) |->
                 ConwayNextState(history.start[y][x],
                                 count_neighbors(grid, history.start, x, y))]]

\* The reader has read grid.cells in the middle of the loops, after a pass
\* that wrote an alive cell to new_cells where the old matrix has a dead one.
C8_Witness ==
    /\ pc.at = "loop"
    /\ pc.k >= 1
    /\ pc.k < grid.width * grid.height
    /\ observed = history.start
    /\ new_cells[0][0] = 1
    /\ observed[0][0] = 0

\* The vertical line through the middle of a horizontal blinker of m.
Upright(m, w, h) ==
    [y \in Rows(h) |-> [x \in Cols(w) |->
        IF \E r \in Rows(h) :
              /\ x >= 1 /\ x + 1 < w
              /\ m[r][x - 1] = 1 /\ m[r][x] = 1 /\ m[r][x + 1] = 1
              /\ y \in {r - 1, r, r + 1}
        THEN 1 ELSE 0]]

\* C10 (SpecBlinker): after an odd number of steps the horizontal blinker is
\* the vertical line through its middle, which differs from the original;
\* after an even number of steps it is the original configuration.
C10_BlinkerPeriodTwo ==
    /\ grid.generation % 2 = 1 =>
          /\ grid.cells = Upright(origin, grid.width, grid.height)
          /\ grid.cells # origin
    /\ grid.generation % 2 = 0 => grid.cells = origin

\* The blinker in the last rows of a 4 x 5 grid, back after two steps.
C10_Witness ==
    /\ grid.generation = 2
    /\ last.op = "step"
    /\ grid.width = 4 /\ grid.height = 5
    /\ grid.cells = origin
    /\ origin[3][1] = 1 /\ origin[3][2] = 1 /\ origin[3][3] = 1

\* C11 as claimed (SpecBlock): a Conway grid of either topology whose only
\* alive cells are a 2 x 2 block has, after any number of steps, the matrix
\* it started with.
C11_BlockFixedPoint == grid.cells = origin

\* The matrix m moved k cells right and k cells down on the torus.
Shifted(m, w, h, k) ==
    [y \in Rows(h) |-> [x \in Cols(w) |-> m[(y - k) % h][(x - k) % w]]]

\* C12 (SpecGlider): on a toroidal Conway grid seeded with one glider the
\* population is 5 in every generation, and every fourth generation the
\* matrix is the original glider moved one cell right and one cell down,
\* wrapped around the edges.
C12_GliderConserved ==
    /\ Population(grid.cells, grid.width, grid.height) = 5
    /\ grid.generation % 4 = 0 =>
          grid.cells = Shifted(origin, grid.width, grid.height,
                               grid.generation \div 4)

\* A stepped 6 x 6 grid whose glider has cells in the first and in the last
\* column at once.
C12_Witness ==
    /\ last.op = "step"
    /\ grid.width = 6 /\ grid.height = 6
    /\ \E y \in Rows(grid.height) : grid.cells[y][0] = 1
    /\ \E y \in Rows(grid.height) : grid.cells[y][grid.width - 1] = 1
    /\ Population(grid.cells, grid.width, grid.height) = 5

\* The coordinates around (x, y): the eight offsets applied, unwrapped.
Around(x, y) ==
    {<<x + dx, y + dy>> : dx \in -1 .. 1, dy \in -1 .. 1} \ {<<x, y>>}

\* The set of the coordinates a call yielded.
Yielded(ns) == {ns[i] : i \in 1 .. Len(ns)}

\* The number of neighbours the claim gives a cell by its position.
ByPosition(x, y, w, h) ==
    LET onX == x \in {0, w - 1}
        onY == y \in {0, h - 1}
    IN  IF onX /\ onY THEN 3 ELSE IF onX \/ onY THEN 5 ELSE 8

\* What get_neighbors yields on a bounded grid: the coordinates around the
\* cell that are on the grid, each once, never the cell itself.
BoundedYield(a, g) ==
    /\ Yielded(a.yielded) =
          {p \in Around(a.x, a.y) : p[1] \in Cols(g.width) /\ p[2] \in Rows(g.height)}
    /\ Cardinality(Yielded(a.yielded)) = Len(a.yielded)
    /\ <<a.x, a.y>> \notin Yielded(a.yielded)

\* C13 as claimed (SpecNeighbors): on a bounded grid get_neighbors yields
\* exactly the coordinates around the cell that are on the grid, each once
\* and never the cell itself; a corner cell gets 3, an edge cell 5, an
\* interior cell 8, on every grid.
C13_BoundedNeighborsOnEveryGrid ==
    last.op = "get_neighbors" /\ ~last.pre.toroidal =>
        /\ BoundedYield(last.args, last.pre)
        /\ Len(last.args.yielded) =
              ByPosition(last.args.x, last.args.y, last.pre.width, last.pre.height)

\* C13 as amended (SpecNeighbors): on a bounded grid get_neighbors yields
\* exactly the coordinates around the cell that are on the grid, each once
\* and never the cell itself; on a grid of width and height at least 2 a
\* corner cell gets 3, an edge cell 5 and an interior cell 8, and on a grid
\* one cell wide or high a cell gets at most 2.
C13_BoundedNeighbors ==
    last.op = "get_neighbors" /\ ~last.pre.toroidal =>
        /\ BoundedYield(last.args, last.pre)
        /\ last.pre.width >= 2 /\ last.pre.height >= 2 =>
              Len(last.args.yielded) =
                 ByPosition(last.args.x, last.args.y,
                            last.pre.width, last.pre.height)
        /\ last.pre.width = 1 \/ last.pre.height = 1 =>
              Len(last.args.yielded) <= 2

\* The corner (2, 0) of a bounded 3 x 4 grid yielded its 3 neighbours.
C13_Witness ==
    /\ last.op = "get_neighbors"
    /\ ~last.pre.toroidal
    /\ last.pre.width = 3 /\ last.pre.height = 4
    /\ last.args.x = 2 /\ last.args.y = 0
    /\ last.args.yielded = << <<1, 0>>, <<1, 1>>, <<2, 1>> >>

\* c is a mod n, said without the operator: on the grid, a multiple of n away.
Wraps(c, a, n) == c \in 0 .. (n - 1) /\ \E k \in -1 .. 1 : c = a - k * n

\* C14 (SpecNeighbors): on a toroidal grid get_neighbors yields exactly 8
\* coordinates, the i-th of them the i-th non-zero offset applied to the
\* cell and wrapped modulo width and height, each on the grid.
C14_ToroidalNeighbors ==
    last.op = "get_neighbors" /\ last.pre.toroidal =>
        /\ Len(last.args.yielded) = 8
        /\ \A i \in 1 .. 8 :
              /\ Wraps(last.args.yielded[i][1], last.args.x + Offsets[i][1],
                        last.pre.width)
              /\ Wraps(last.args.yielded[i][2], last.args.y + Offsets[i][2],
                        last.pre.height)
        /\ {Offsets[i] : i \in 1 .. 8} =
              ({-1, 0, 1} \X {-1, 0, 1}) \ {<<0, 0>>}

\* The corner (0, 0) of a toroidal 3 x 4 grid yielded the opposite corner first.
C14_Witness ==
    /\ last.op = "get_neighbors"
    /\ last.pre.toroidal
    /\ last.pre.width = 3 /\ last.pre.height = 4
    /\ last.args.x = 0 /\ last.args.y = 0
    /\ last.args.yielded[1] = <<2, 3>>
    /\ Len(last.args.yielded) = 8

\* C15 as claimed (SpecNeighbors): under both topologies and on every grid,
\* get_neighbors never yields the cell itself nor a coordinate twice, so
\* count_neighbors is 0 when the cell is the only alive one and never more
\* than the number of distinct cells around it.
C15_MooreNeighbourhood ==
    last.op = "get_neighbors" =>
        /\ <<last.args.x, last.args.y>> \notin Yielded(last.args.yielded)
        /\ Cardinality(Yielded(last.args.yielded)) = Len(last.args.yielded)
        /\ last.pre.cells[last.args.y][last.args.x] = 1
              /\ Population(last.pre.cells, last.pre.width, last.pre.height) = 1
              => last.args.count = 0
        /\ last.args.count <= Cardinality(Yielded(last.args.yielded)
                                             \ {<<last.args.x, last.args.y>>})

\* C16 as claimed (SpecTwins): with a fixed seed, the matrices a stochastic
\* grid goes through under its own step() calls are the same whether or not
\* step() and randomize() calls on another stochastic grid are interleaved.
C16_IndependentTrajectories ==
    /\ grid.generation = twin.alone.generation
    /\ grid.cells = twin.alone.cells

\* The Conway grid of the shape, topology, matrix and counter of g.
AsConway(g) ==
    [create_grid(g.width, g.height, g.toroidal, "conway", ClassCertainty)
        EXCEPT !.cells = g.cells, !.generation = g.generation]

\* C17 (SpecRule): at certainty 1 the probabilistic next_state returns
\* Conway's result for every state, neighbour count and draw, so a step()
\* of a probabilistic grid of certainty 1 gives the matrix a step() of the
\* Conway grid of the same topology and matrix gives.
C17_CertainIsConway ==
    last.op \in {"next_state", "step"}
       /\ last.pre.rule = "probabilistic" /\ last.pre.certainty = 100 =>
        /\ last.op = "next_state" =>
              last.args.out = ConwayNextState(last.args.current, last.args.n)
        /\ last.op = "step" =>
              /\ grid.cells = step(AsConway(last.pre), last.args).cells
              /\ grid.generation = step(AsConway(last.pre), last.args).generation

\* A probabilistic grid of certainty 1 has been stepped with the greatest
\* draw for cell (0, 0), which was born on its three living neighbours.
C17_Witness ==
    /\ last.op = "step"
    /\ last.pre.rule = "probabilistic"
    /\ last.pre.certainty = 100
    /\ last.args[0][0] = 99
    /\ last.pre.cells[0][0] = 0
    /\ count_neighbors(last.pre, last.pre.cells, 0, 0) = 3
    /\ grid.cells[0][0] = 1

\* C18 (SpecCall): whatever the matrix before and whatever is drawn,
\* randomize(0) leaves every cell 0 and randomize(1) leaves every cell 1;
\* the counter and the rest of the grid are unchanged.
C18_RandomizeExtremes ==
    last.op = "randomize" =>
        /\ grid.generation = last.pre.generation
        /\ Config(grid) = Config(last.pre)
        /\ last.args[1] = 0 => AllDead(grid)
        /\ last.args[1] = 100 =>
              \A y \in Rows(grid.height) : \A x \in Cols(grid.width) :
                 grid.cells[y][x] = 1

\* randomize(0) on a grid of generation 2 that had an alive cell.
C18_Witness ==
    /\ last.op = "randomize"
    /\ last.args[1] = 0
    /\ SomeAlive(last.pre)
    /\ AllDead(grid)
    /\ grid.generation = 2

\* The probability of the graduated rule as the claim tabulates it, in per cent.
GraduatedTable(current, n) ==
    CASE current = 1 /\ n < 2       -> 10
      [] current = 1 /\ n \in {2, 3} -> 95
      [] current = 1 /\ n > 3       -> 20
      [] current = 0 /\ n = 3       -> 90
      [] current = 0 /\ n = 2       -> 10
      [] OTHER                      -> 1

\* C19 (SpecRule): the graduated next_state returns 1 iff its draw is less
\* than the tabulated probability and 0 otherwise, for every state,
\* neighbour count and draw; a step() of a graduated grid applies this to
\* every cell with the cell's one draw.
C19_GraduatedRule ==
    /\ last.op = "next_state" /\ last.pre.rule = "graduated" =>
          /\ last.args.out \in {0, 1}
          /\ last.args.out = 1 <=>
                last.args.r < GraduatedTable(last.args.current, last.args.n)
    /\ last.op = "step" /\ last.pre.rule = "graduated" =>
          \A y \in Rows(grid.height) : \A x \in Cols(grid.width) :
             grid.cells[y][x] = 1 <=>
                last.args[y][x] <
                   GraduatedTable(last.pre.cells[y][x],
                                  count_neighbors(last.pre, last.pre.cells, x, y))

\* A graduated grid has been stepped in which the dead cell (0, 0) had no
\* living neighbour and drew the least draw: it is alive.
C19_Witness ==
    /\ last.op = "step"
    /\ last.pre.rule = "graduated"
    /\ last.pre.cells[0][0] = 0
    /\ count_neighbors(last.pre, last.pre.cells, 0, 0) = 0
    /\ last.args[0][0] = 0
    /\ grid.cells[0][0] = 1

\* C20 (SpecFactory): for each topology and each of the three rule names the
\* grid create_grid returns has the toroidal neighbour function iff toroidal
\* was asked for, the next_state of the named rule, and under the
\* probabilistic rule the certainty passed in.
C20_FactoryComposes ==
    (last.op = "create_grid" /\ result = "grid" /\ last.args.rules \in RuleNames) =>
        LET a == last.args
        IN  /\ \A x \in Cols(grid.width), y \in Rows(grid.height) :
                  get_neighbors(grid, x, y) =
                     IF a.tor
                     THEN ToroidalGetNeighbors(x, y, a.w, a.h)
                     ELSE GridGetNeighbors(x, y, a.w, a.h)
            /\ \A current \in CellState, n \in 0 .. 8, r \in Draws :
                  next_state(grid, current, n, r) =
                     CASE a.rules = "conway" -> ConwayNextState(current, n)
                       [] a.rules = "probabilistic" ->
                             ProbabilisticNextState(current, n, a.cert, r)
                       [] a.rules = "graduated" -> GraduatedNextState(current, n, r)
            /\ a.rules = "probabilistic" => grid.certainty = a.cert
            /\ grid.toroidal = a.tor
            /\ grid.rule = a.rules

\* create_grid(2, 2, toroidal=True, rules="probabilistic", certainty=0)
\* returned a toroidal grid whose certainty is 0.
C20_Witness ==
    /\ last.op = "create_grid"
    /\ result = "grid"
    /\ last.args.rules = "probabilistic"
    /\ last.args.tor
    /\ last.args.cert = 0
    /\ grid.width = 2 /\ grid.height = 2
    /\ grid.toroidal
    /\ grid.rule = "probabilistic"
    /\ grid.certainty = 0

\* The cells of a w x h grid that are `from` in prev and `to` in cur.
Changed(prev, cur, w, h, from, to) ==
    {p \in Cols(w) \X Rows(h) : prev[p[2]][p[1]] = from /\ cur[p[2]][p[1]] = to}

\* C21 (SpecFrames): after a frame, previous_cells is the complete matrix
\* the grid had before the frame and the grid is one step() further; the
\* births and deaths counted from the two matrices are the numbers of 0 -> 1
\* and of 1 -> 0 cells and their difference is the change of the
\* population; the frame added one (generation, population) pair, that of
\* the grid after the step, and the recorded generations are consecutive.
C21_FrameDelta ==
    /\ last.op = "animate_frame" =>
          LET old == last.pre
              w   == grid.width
              h   == grid.height
              n   == Len(viz.generation_history)
          IN  /\ viz.previous_cells = old.cells
              /\ grid = step(old, last.args)
              /\ viz.delta.counted =>
                    /\ viz.delta.births =
                          Cardinality(Changed(old.cells, grid.cells, w, h, 0, 1))
                    /\ viz.delta.deaths =
                          Cardinality(Changed(old.cells, grid.cells, w, h, 1, 0))
                    /\ viz.delta.births - viz.delta.deaths =
                          Population(grid.cells, w, h) - Population(old.cells, w, h)
              /\ n = viz.frames + 1
              /\ viz.generation_history[n] = grid.generation
              /\ viz.population_history[n] = Population(grid.cells, w, h)
    /\ Len(viz.population_history) = Len(viz.generation_history)
    /\ \A i \in 1 .. (Len(viz.generation_history) - 1) :
          viz.generation_history[i + 1] = viz.generation_history[i] + 1

\* The second frame of an animation with sound, on a grid that started at
\* generation 2: one cell was born and two died.
C21_Witness ==
    /\ last.op = "animate_frame"
    /\ viz.frames = 2
    /\ viz.generation_history = <<2, 3, 4>>
    /\ viz.delta.counted
    /\ viz.delta.births = 1
    /\ viz.delta.deaths = 2

\* The matrix m moved cyclically a cells right and b cells down.
Translated(m, w, h, a, b) ==
    [y \in Rows(h) |-> [x \in Cols(w) |-> m[(y - b) % h][(x - a) % w]]]

\* C22 (SpecShift): on a toroidal Conway grid step() commutes with
\* translation: whenever the grid and the grid started from its moved
\* matrix have made the same number of steps, the matrix of the second is
\* the matrix of the first moved by the same shift.
C22_StepCommutesWithShift ==
    grid.generation = twin.other.generation =>
        twin.other.cells = Translated(grid.cells, grid.width, grid.height,
                                      twin.shift[1], twin.shift[2])

\* A 4 x 3 torus and its copy moved by (1, 2), both stepped once; the step
\* changed the matrix, a cell is alive, and the moved result differs.
C22_Witness ==
    /\ grid.width = 4 /\ grid.height = 3
    /\ twin.shift = <<1, 2>>
    /\ grid.generation = 1
    /\ twin.other.generation = 1
    /\ grid.cells # origin
    /\ SomeAlive(grid)
    /\ twin.other.cells # grid.cells

\* The cells of a w x h grid that are not on its border.
Interior(w, h) == (1 .. (w - 2)) \X (1 .. (h - 2))

\* C23 (SpecBorder): on a grid of width and height at least 3, a cell off
\* the border gets the same 8 neighbours from the bounded and from the
\* toroidal get_neighbors; so after one step() of a bounded and of a
\* toroidal Conway grid started from the same matrix, every cell off the
\* border has the same value in both.
C23_InteriorAgrees ==
    /\ (last.op = "get_neighbors"
            /\ <<last.args.x, last.args.y>> \in Interior(grid.width, grid.height)) =>
          /\ Yielded(last.args.bounded) = Yielded(last.args.toroidal)
          /\ Yielded(last.args.bounded) = Around(last.args.x, last.args.y)
          /\ Cardinality(Yielded(last.args.bounded)) = 8
          /\ Len(last.args.bounded) = 8
          /\ Len(last.args.toroidal) = 8
    /\ grid.generation = 1 /\ twin.other.generation = 1 =>
          \A p \in Interior(grid.width, grid.height) :
             grid.cells[p[2]][p[1]] = twin.other.cells[p[2]][p[1]]

\* A bounded and a toroidal 4 x 3 grid stepped once from the same matrix:
\* cell (1, 1), off the border, was born in both, and the two matrices
\* differ on the border.
C23_Witness ==
    /\ grid.width = 4 /\ grid.height = 3
    /\ grid.generation = 1
    /\ twin.other.generation = 1
    /\ origin[1][1] = 0
    /\ grid.cells[1][1] = 1
    /\ twin.other.cells[1][1] = 1
    /\ twin.other.cells # grid.cells

====
